---- MODULE Spec2Model ----
(***************************************************************************)
(* Model of the Quadtree class of src/lib/quadtree.js (quadtree-geo).      *)
(*                                                                         *)
(* Numbers.  The library computes on IEEE doubles; the model computes on   *)
(* exact fixed-point numbers: a coordinate value is an integer count of    *)
(* 1/Scale degrees, with Scale = 2^(MaxPrec+1).  Region bounds are whole   *)
(* degrees, so the centre (min+max)/2 and every halving of the range done  *)
(* by encode/decode for a path of at most MaxPrec symbols is exact, as it  *)
(* is in binary floating point for such bounds.                            *)
(*                                                                         *)
(* Strings.  A quadtree string is a sequence of one-character strings, so  *)
(* that "-1" (the value neighbor returns at the Region edge) is the two    *)
(* symbol sequence <<"-", "1">> and can be fed back to decode.             *)
(*                                                                         *)
(* State.  qt is the instance the caller holds (NoInstance until a         *)
(* construction succeeds; the Region is never reassigned afterwards); op,  *)
(* args and ret record the call in progress, its arguments and its         *)
(* outcome.  Calls are synchronous: a call is made when none is in         *)
(* progress (op = "none") and Return hands control back to the caller.     *)
(***************************************************************************)
EXTENDS Integers, Sequences, FiniteSets, TLC

VARIABLES qt, op, args, ret

vars == <<qt, op, args, ret>>

(***************************************************************************)
(* Bounds of the model.                                                    *)
(***************************************************************************)
\* longest path / largest precision explored
MaxPrec == 3
\* longest malformed path explored
MaxBadLen == 2

RECURSIVE Pow2(_)
Pow2(n) == IF n <= 0 THEN 1 ELSE 2 * Pow2(n - 1)

\* fixed-point units per degree
Scale == Pow2(MaxPrec + 1)

Deg(d) == d * Scale

(***************************************************************************)
(* constructor, src/lib/quadtree.js:14-21                                  *)
(***************************************************************************)
LngLimit == 180
LatLimit == 90

NoInstance == [none |-> TRUE]

\* mutant: the latitude assertion with minLat < maxLat
LatAssertStrict(minLat, maxLat) ==
    /\ Deg(-LatLimit) <= minLat
    /\ minLat < maxLat
    /\ maxLat <= Deg(LatLimit)

\* the two assert() conditions of the constructor
LatAssert(minLat, maxLat) ==
    /\ Deg(-LatLimit) <= minLat
    /\ minLat <= maxLat
    /\ maxLat <= Deg(LatLimit)

LngAssert(minLng, maxLng) ==
    /\ Deg(-LngLimit) <= minLng
    /\ minLng <= maxLng
    /\ maxLng <= Deg(LngLimit)

\* outcome of new Quadtree(minLng, minLat, maxLng, maxLat)
Constructor(minLng, minLat, maxLng, maxLat) ==
    IF ~LatAssert(minLat, maxLat)
    THEN [threw |-> TRUE, error |-> "AssertionError",
          message |-> "minLat and maxLat must be between -90 and 90"]
    ELSE IF ~LngAssert(minLng, maxLng)
    THEN [threw |-> TRUE, error |-> "AssertionError",
          message |-> "minLng and maxLng must be between -180 and 180"]
    ELSE [threw |-> FALSE,
          instance |-> [minLng |-> minLng, minLat |-> minLat,
                        maxLng |-> maxLng, maxLat |-> maxLat]]

(***************************************************************************)
(* encode, src/lib/quadtree.js:29-61                                       *)
(***************************************************************************)
Center(q) == [lng |-> (q.minLng + q.maxLng) \div 2,
              lat |-> (q.minLat + q.maxLat) \div 2]

HalfRange(q) == [lng |-> (q.maxLng - q.minLng) \div 2,
                 lat |-> (q.maxLat - q.minLat) \div 2]

\* mutant: only the longitude range is halved
HalveLngOnly(range) == [lng |-> range.lng \div 2, lat |-> range.lat]

Halve(range) == [lng |-> range.lng \div 2, lat |-> range.lat \div 2]

\* mutant: the first test of the chain with > for >=
EncodeQuadrantStrict(coordinate, origin) ==
    IF coordinate.lng > origin.lng /\ coordinate.lat > origin.lat THEN "1"
    ELSE IF coordinate.lng <= origin.lng /\ coordinate.lat >= origin.lat THEN "2"
    ELSE IF coordinate.lng <= origin.lng /\ coordinate.lat <= origin.lat THEN "3"
    ELSE "4"

\* mutant: the first test of the chain with || for &&
EncodeQuadrantOr(coordinate, origin) ==
    IF coordinate.lng >= origin.lng \/ coordinate.lat >= origin.lat THEN "1"
    ELSE IF coordinate.lng <= origin.lng /\ coordinate.lat >= origin.lat THEN "2"
    ELSE IF coordinate.lng <= origin.lng /\ coordinate.lat <= origin.lat THEN "3"
    ELSE "4"

\* the if / else-if chain of the loop body: which quadrant symbol is chosen
EncodeQuadrant(coordinate, origin) ==
    IF coordinate.lng >= origin.lng /\ coordinate.lat >= origin.lat THEN "1"
    ELSE IF coordinate.lng <= origin.lng /\ coordinate.lat >= origin.lat THEN "2"
    ELSE IF coordinate.lng <= origin.lng /\ coordinate.lat <= origin.lat THEN "3"
    ELSE "4"

\* mutant: the branch of '4' with the latitude shift of '1'
ShiftFourNorth(origin, range, quadrant) ==
    IF quadrant = "1" THEN [lng |-> origin.lng + range.lng, lat |-> origin.lat + range.lat]
    ELSE IF quadrant = "2" THEN [lng |-> origin.lng - range.lng, lat |-> origin.lat + range.lat]
    ELSE IF quadrant = "3" THEN [lng |-> origin.lng - range.lng, lat |-> origin.lat - range.lat]
    ELSE IF quadrant = "4" THEN [lng |-> origin.lng + range.lng, lat |-> origin.lat + range.lat]
    ELSE origin

\* the origin shift the branches of encode and decode apply for a symbol;
\* range is the already halved range.  No branch is taken for another symbol.
Shift(origin, range, quadrant) ==
    IF quadrant = "1" THEN [lng |-> origin.lng + range.lng, lat |-> origin.lat + range.lat]
    ELSE IF quadrant = "2" THEN [lng |-> origin.lng - range.lng, lat |-> origin.lat + range.lat]
    ELSE IF quadrant = "3" THEN [lng |-> origin.lng - range.lng, lat |-> origin.lat - range.lat]
    ELSE IF quadrant = "4" THEN [lng |-> origin.lng + range.lng, lat |-> origin.lat - range.lat]
    ELSE origin

\* mutant: the symbol put in front of the string instead of at its end
RECURSIVE EncodeLoopPrepend(_, _, _, _, _, _)
EncodeLoopPrepend(i, precision, coordinate, origin, range, encoded) ==
    IF ~(i < precision) THEN encoded
    ELSE LET r == Halve(range)
             d == EncodeQuadrant(coordinate, origin)
         IN EncodeLoopPrepend(i + 1, precision, coordinate, Shift(origin, r, d), r,
                              <<d>> \o encoded)

RECURSIVE EncodeLoop(_, _, _, _, _, _)
EncodeLoop(i, precision, coordinate, origin, range, encoded) ==
    IF ~(i < precision) THEN encoded
    ELSE LET r == Halve(range)
             d == EncodeQuadrant(coordinate, origin)
         IN EncodeLoop(i + 1, precision, coordinate, Shift(origin, r, d), r,
                       Append(encoded, d))

encode(q, coordinate, precision) ==
    EncodeLoop(0, precision, coordinate, Center(q), HalfRange(q), <<>>)

(***************************************************************************)
(* decode, src/lib/quadtree.js:68-95                                       *)
(***************************************************************************)
\* mutant: the origin shifted by the range before it is halved
RECURSIVE DecodeLoopShiftFirst(_, _, _, _)
DecodeLoopShiftFirst(i, encoded, origin, range) ==
    IF i > Len(encoded) THEN [origin |-> origin, error |-> range]
    ELSE DecodeLoopShiftFirst(i + 1, encoded, Shift(origin, range, encoded[i]),
                              Halve(range))

RECURSIVE DecodeLoop(_, _, _, _)
DecodeLoop(i, encoded, origin, range) ==
    IF i > Len(encoded) THEN [origin |-> origin, error |-> range]
    ELSE LET r == Halve(range)
         IN DecodeLoop(i + 1, encoded, Shift(origin, r, encoded[i]), r)

decode(q, encoded) == DecodeLoop(1, encoded, Center(q), HalfRange(q))

(***************************************************************************)
(* neighbor, src/lib/quadtree.js:104-117                                   *)
(***************************************************************************)
NotFound == <<"-", "1">>

\* mutant: the shift by one error (half a cell) instead of two
NeighborCoordinateHalf(q, encoded, east, north) ==
    LET decoded == decode(q, encoded)
    IN [lng |-> decoded.origin.lng + decoded.error.lng * east,
        lat |-> decoded.origin.lat + decoded.error.lat * north]

NeighborCoordinate(q, encoded, east, north) ==
    LET decoded == decode(q, encoded)
    IN [lng |-> decoded.origin.lng + decoded.error.lng * east * 2,
        lat |-> decoded.origin.lat + decoded.error.lat * north * 2]

\* mutant: the test without its maxLng comparison
OutsideRegionNoEast(q, c) ==
    \/ c.lng < q.minLng
    \/ c.lat < q.minLat
    \/ c.lat > q.maxLat

OutsideRegion(q, c) ==
    \/ c.lng < q.minLng
    \/ c.lat < q.minLat
    \/ c.lng > q.maxLng
    \/ c.lat > q.maxLat

\* mutant: the offsets applied to the wrong axes
neighborSwapped(q, encoded, east, north) ==
    LET neighborCoordinate == NeighborCoordinate(q, encoded, north, east)
    IN IF OutsideRegion(q, neighborCoordinate) THEN <<"-", "1">>
       ELSE encode(q, neighborCoordinate, Len(encoded))

neighbor(q, encoded, east, north) ==
    LET neighborCoordinate == NeighborCoordinate(q, encoded, east, north)
    IN IF OutsideRegion(q, neighborCoordinate) THEN NotFound
       ELSE encode(q, neighborCoordinate, Len(encoded))

(***************************************************************************)
(* boundingBox, src/lib/quadtree.js:124-132                                *)
(***************************************************************************)
boundingBox(q, encoded) ==
    LET decoded == decode(q, encoded)
    IN [minLng |-> decoded.origin.lng - decoded.error.lng,
        minLat |-> decoded.origin.lat - decoded.error.lat,
        maxLng |-> decoded.origin.lng + decoded.error.lng,
        maxLat |-> decoded.origin.lat + decoded.error.lat]

(***************************************************************************)
(* distance, src/lib/quadtree.js:140-156                                   *)
(*                                                                         *)
(* Math.sin and Math.cos are tabulated in thousandths at the multiples of  *)
(* 7.5 degrees, which is every angle the formula meets when latitudes and  *)
(* longitudes are multiples of 15 degrees; a is kept in millionths.  The   *)
(* last line, 2 * atan2(sqrt(a), sqrt(1 - a)), is the angle c with         *)
(* sin(c/2)^2 = a: it is read back from the same table, linearly between   *)
(* two entries, so that the result grows with a as the library's does.     *)
(***************************************************************************)
earthRadius == 6371000

\* 1000 * sin(i * 7.5 degrees), i = 0..24
SinTable ==
    <<0, 131, 259, 383, 500, 609, 707, 793, 866, 924, 966, 991, 1000,
      991, 966, 924, 866, 793, 707, 609, 500, 383, 259, 131, 0>>

Abs(x) == IF x < 0 THEN -x ELSE x

\* whole degrees of a fixed-point value
ToDegrees(x) == x \div Scale

\* 1000 * |sin(d/2)| for d degrees, a multiple of 15 with |d| <= 360
SinHalf(d) == SinTable[(Abs(d) \div 15) + 1]

\* 1000 * cos(d) for d degrees, a multiple of 15 with |d| <= 90
Cos(d) == SinTable[2 * ((90 - Abs(d)) \div 15) + 1]

\* const a = sin^2(dLat/2) + cos(lat1) * cos(lat2) * sin^2(dLng/2), in millionths
HaversineA(coord1, coord2) ==
    LET lat1 == ToDegrees(coord1.lat)
        lat2 == ToDegrees(coord2.lat)
        deltaLat == ToDegrees(coord2.lat - coord1.lat)
        deltaLng == ToDegrees(coord2.lng - coord1.lng)
    IN SinHalf(deltaLat) * SinHalf(deltaLat)
         + ((Cos(lat1) * Cos(lat2)) \div 1000)
             * ((SinHalf(deltaLng) * SinHalf(deltaLng)) \div 1000)

\* metres of great circle per 15 degrees of c: earthRadius * pi / 12
MetresPerStep == ((earthRadius \div 113) * 355) \div 12

\* earthRadius * c, where sin(c/2)^2 = a
RECURSIVE ArcMetres(_, _)
ArcMetres(a, i) ==
    LET lo == SinTable[i] * SinTable[i]
        hi == SinTable[i + 1] * SinTable[i + 1]
    IN IF i < 12 /\ a >= hi THEN ArcMetres(a, i + 1)
       ELSE IF a >= hi THEN 12 * MetresPerStep
       ELSE (i - 1) * MetresPerStep
              + (((MetresPerStep \div 1000) * (a - lo)) \div (hi - lo)) * 1000

distance(coord1, coord2) == ArcMetres(HaversineA(coord1, coord2), 1)

(***************************************************************************)
(* getPrefixMatchLength, src/lib/quadtree.js:164-175                       *)
(***************************************************************************)
Min(a, b) == IF a <= b THEN a ELSE b
Max(a, b) == IF a >= b THEN a ELSE b

RECURSIVE PrefixLoop(_, _, _, _)
PrefixLoop(i, minLength, str1, str2) ==
    IF i > minLength THEN minLength
    ELSE IF str1[i] = str2[i] THEN PrefixLoop(i + 1, minLength, str1, str2)
    ELSE i - 1

getPrefixMatchLength(str1, str2) ==
    PrefixLoop(1, Min(Len(str1), Len(str2)), str1, str2)

(***************************************************************************)
(* sortPointsByProximityToTarget, src/lib/quadtree.js:184-233              *)
(*                                                                         *)
(* Objects.  The elements of the caller's array of n points are the        *)
(* objects 1..n.  An element of an array built during the call carries in  *)
(* ref the object it is, so that a write to one of its fields is a write   *)
(* to that object, seen through every array that holds it.                 *)
(***************************************************************************)
\* mutant: the callback annotates the point itself and returns it
EncodedPointsInPlace(target, points) ==
    [i \in 1..Len(points) |->
        [lng |-> points[i].lng, lat |-> points[i].lat,
         encoded |-> points[i].encoded,
         prefixMatch |-> getPrefixMatchLength(target.encoded, points[i].encoded),
         ref |-> i]]

\* points.map(point => ({...point, prefixMatch: ...})): the object literal
\* allocates a new object, n+i, with the fields of point i copied into it
EncodedPoints(target, points) ==
    [i \in 1..Len(points) |->
        [lng |-> points[i].lng, lat |-> points[i].lat,
         encoded |-> points[i].encoded,
         prefixMatch |-> getPrefixMatchLength(target.encoded, points[i].encoded),
         ref |-> Len(points) + i]]

\* mutant: the filter with >= for ===
RECURSIVE PointsAtLevelOrAbove(_, _)
PointsAtLevelOrAbove(encodedPoints, i) ==
    IF encodedPoints = <<>> THEN <<>>
    ELSE IF Head(encodedPoints).prefixMatch >= i
         THEN <<Head(encodedPoints)>> \o PointsAtLevelOrAbove(Tail(encodedPoints), i)
         ELSE PointsAtLevelOrAbove(Tail(encodedPoints), i)

\* groupedByPrefix.get(i): encodedPoints.filter(p => p.prefixMatch === i)
RECURSIVE PointsAtLevel(_, _)
PointsAtLevel(encodedPoints, i) ==
    IF encodedPoints = <<>> THEN <<>>
    ELSE IF Head(encodedPoints).prefixMatch = i
         THEN <<Head(encodedPoints)>> \o PointsAtLevel(Tail(encodedPoints), i)
         ELSE PointsAtLevel(Tail(encodedPoints), i)

\* mutant: the loop left as soon as k candidates are collected
RECURSIVE CollectLoopNoOverscan(_, _, _, _, _, _)
CollectLoopNoOverscan(i, k, encodedPoints, candidates, breakAfterNextStep, visited) ==
    IF ~(i >= 0) THEN [candidates |-> candidates, visited |-> visited]
    ELSE LET c == candidates \o PointsAtLevel(encodedPoints, i)
             v == Append(visited, i)
         IN IF Len(c) >= k THEN [candidates |-> c, visited |-> v]
            ELSE CollectLoopNoOverscan(i - 1, k, encodedPoints, c, FALSE, v)

\* the collecting loop; visited lists the levels whose bucket was taken
RECURSIVE CollectLoop(_, _, _, _, _, _)
CollectLoop(i, k, encodedPoints, candidates, breakAfterNextStep, visited) ==
    IF ~(i >= 0) THEN [candidates |-> candidates, visited |-> visited]
    ELSE LET c == candidates \o PointsAtLevel(encodedPoints, i)
             v == Append(visited, i)
         IN IF breakAfterNextStep THEN [candidates |-> c, visited |-> v]
            ELSE CollectLoop(i - 1, k, encodedPoints, c, Len(c) >= k, v)

\* candidates.forEach(item => { item.distance = this.distance(target, item) })
WithDistance(target, candidates) ==
    [i \in 1..Len(candidates) |->
        [lng |-> candidates[i].lng, lat |-> candidates[i].lat,
         encoded |-> candidates[i].encoded,
         prefixMatch |-> candidates[i].prefixMatch,
         ref |-> candidates[i].ref,
         distance |-> distance(target, candidates[i])]]

\* mutant: the distance evaluated a second time for every candidate
DistanceCallsTwice(candidates) ==
    [i \in 1..(2 * Len(candidates)) |-> candidates[((i - 1) % Len(candidates)) + 1].ref]

\* the objects this.distance(target, item) is called for, in order: one call
\* per item of the forEach; the comparator below reads the stored field
DistanceCalls(candidates) ==
    [i \in 1..Len(candidates) |-> candidates[i].ref]

\* the comparator (a, b) => a.distance - b.distance
CompareDistance(a, b) == a.distance - b.distance

\* mutant: a sort that puts an element before those it compares equal to
RECURSIVE InsertSortedTiesFirst(_, _)
InsertSortedTiesFirst(sorted, x) ==
    IF sorted = <<>> THEN <<x>>
    ELSE IF CompareDistance(x, Head(sorted)) <= 0 THEN <<x>> \o sorted
    ELSE <<Head(sorted)>> \o InsertSortedTiesFirst(Tail(sorted), x)

\* Array.prototype.sort with that comparator: stable
RECURSIVE InsertSorted(_, _)
InsertSorted(sorted, x) ==
    IF sorted = <<>> THEN <<x>>
    ELSE IF CompareDistance(x, Head(sorted)) < 0 THEN <<x>> \o sorted
    ELSE <<Head(sorted)>> \o InsertSorted(Tail(sorted), x)

RECURSIVE SortByDistance(_)
SortByDistance(s) ==
    IF s = <<>> THEN <<>>
    ELSE InsertSorted(SortByDistance(SubSeq(s, 1, Len(s) - 1)), s[Len(s)])

\* Array.prototype.slice(0, k): a negative k counts from the end
Slice0(s, k) ==
    LET end == IF k < 0 THEN Max(Len(s) + k, 0) ELSE Min(k, Len(s))
    IN SubSeq(s, 1, end)

\* the fields of the objects of an array, as the caller reads them
Contents(s) ==
    [i \in 1..Len(s) |->
        [f \in (DOMAIN s[i]) \ {"ref"} |-> s[i][f]]]

\* the caller's points after the call: object i has the prefixMatch the map
\* callback wrote if it is one of encodedPoints, and the distance the
\* forEach wrote if it is one of the candidates
PointsAfter(points, encodedPoints, measured) ==
    [i \in 1..Len(points) |->
        IF \E j \in 1..Len(measured) : measured[j].ref = i
        THEN LET j == CHOOSE j \in 1..Len(measured) : measured[j].ref = i
             IN Contents(<<measured[j]>>)[1]
        ELSE IF \E j \in 1..Len(encodedPoints) : encodedPoints[j].ref = i
        THEN LET j == CHOOSE j \in 1..Len(encodedPoints) : encodedPoints[j].ref = i
             IN Contents(<<encodedPoints[j]>>)[1]
        ELSE points[i]]

\* the call; candidates, visited and the calls of distance are kept beside
\* the value returned, after is what the caller's target and points hold
\* when it returns
sortPointsByProximityToTarget(target, points, k) ==
    IF Len(points) = 0
    THEN [threw |-> FALSE, value |-> <<>>, candidates |-> <<>>, visited |-> <<>>,
          distanceCalls |-> <<>>,
          after |-> [target |-> target, points |-> points]]
    ELSE LET encodedPoints == EncodedPoints(target, points)
             maxPrefixLength == Len(target.encoded)
             collected == CollectLoop(maxPrefixLength, k, encodedPoints,
                                      <<>>, FALSE, <<>>)
             measured == WithDistance(target, collected.candidates)
         IN [threw |-> FALSE,
             value |-> Contents(Slice0(SortByDistance(measured), k)),
             candidates |-> measured,
             visited |-> collected.visited,
             distanceCalls |-> DistanceCalls(collected.candidates),
             after |-> [target |-> target,
                        points |-> PointsAfter(points, encodedPoints, measured)]]

(***************************************************************************)
(* sortPointsByHaversineFormula, src/lib/quadtree.js:241-247               *)
(***************************************************************************)
\* the comparator: this.distance(target, a) - this.distance(target, b)
CompareHaversine(target, a, b) == distance(target, a) - distance(target, b)

\* Array.prototype.sort with that comparator: stable
RECURSIVE InsertByHaversine(_, _, _)
InsertByHaversine(target, sorted, x) ==
    IF sorted = <<>> THEN <<x>>
    ELSE IF CompareHaversine(target, x, Head(sorted)) < 0 THEN <<x>> \o sorted
    ELSE <<Head(sorted)>> \o InsertByHaversine(target, Tail(sorted), x)

RECURSIVE SortByHaversine(_, _)
SortByHaversine(target, s) ==
    IF s = <<>> THEN <<>>
    ELSE InsertByHaversine(target, SortByHaversine(target, SubSeq(s, 1, Len(s) - 1)),
                           s[Len(s)])

\* the call: points.sort(...) reorders the caller's array, which is also
\* the value returned
sortPointsByHaversineFormula(target, points) ==
    LET sorted == SortByHaversine(target, points)
    IN [threw |-> FALSE, value |-> sorted,
        after |-> [target |-> target, points |-> sorted]]

(***************************************************************************)
(* distance in IEEE doubles: the order of magnitude of the value returned, *)
(* src/lib/quadtree.js:140-156                                             *)
(*                                                                         *)
(* Whether the value is zero is decided by rounding, which the metre model *)
(* above does not keep: Math.cos(Math.PI / 2) is 6.1e-17 and               *)
(* Math.sin(Math.PI) is 1.2e-16, not 0, and a product below 4.9e-324       *)
(* underflows to 0.  Here a coordinate value is a whole number of degrees  *)
(* or a tiny positive number 10^n (a double holds such a number only next  *)
(* to 0: added to a whole number of degrees other than 0 it is absorbed),  *)
(* and a positive double is kept as its decimal exponent, to within one    *)
(* order of magnitude.                                                     *)
(***************************************************************************)
Whole(d) == [kind |-> "deg", n |-> d]
Tiny(n) == [kind |-> "tiny", n |-> n]

\* decimal exponent of the smallest positive double, 4.9e-324
MinExponent == -324

\* the double 0, below every exponent
Zero == MinExponent - 1

\* decimal exponent of Math.cos(Math.PI / 2) = 6.1e-17
CosRightAngleExponent == -17

\* decimal exponent of Math.sin(Math.PI) = 1.2e-16
SinStraightAngleExponent == -16

\* decimal exponent of Math.PI / 360 = 8.7e-3
HalfRadianPerDegreeExponent == -3

\* decimal exponent of 2 * earthRadius = 1.3e7
TwoEarthRadiiExponent == 7

\* coord2.x - coord1.x
Difference(x2, x1) ==
    IF x1.kind = "deg" /\ x2.kind = "deg"
    THEN IF x1.n = x2.n THEN [kind |-> "zero", n |-> 0] ELSE Whole(x2.n - x1.n)
    ELSE IF x1.kind = "tiny" /\ x2.kind = "tiny"
    THEN IF x1.n = x2.n THEN [kind |-> "zero", n |-> 0] ELSE Tiny(Max(x1.n, x2.n))
    ELSE IF x1.kind = "deg"
    THEN IF x1.n = 0 THEN x2 ELSE Whole(-x1.n)
    ELSE IF x2.n = 0 THEN x1 ELSE Whole(x2.n)

\* a product of two doubles of magnitude at most 1
Times(e1, e2) ==
    IF e1 = Zero \/ e2 = Zero THEN Zero
    ELSE IF e1 + e2 < MinExponent THEN Zero
    ELSE e1 + e2

\* mutant: the cosine of a right angle exactly 0
CosExponentExact(lat) ==
    IF lat.kind = "deg" /\ Abs(lat.n) = 90 THEN Zero
    ELSE IF lat.kind = "deg" /\ lat.n # 0 THEN -1
    ELSE 0

\* Math.cos((lat * Math.PI) / 180)
CosExponent(lat) ==
    IF lat.kind = "deg" /\ Abs(lat.n) = 90 THEN CosRightAngleExponent
    ELSE IF lat.kind = "deg" /\ lat.n # 0 THEN -1
    ELSE 0

\* Math.sin(((delta * Math.PI) / 180) / 2)
SinHalfExponent(delta) ==
    IF delta.kind = "zero" THEN Zero
    ELSE IF delta.kind = "tiny" THEN delta.n + HalfRadianPerDegreeExponent
    ELSE IF Abs(delta.n) = 360 THEN SinStraightAngleExponent
    ELSE IF Abs(delta.n) = 180 THEN 0
    ELSE -1

\* const a = sin * sin + cos * cos * sin * sin, multiplied left to right
HaversineAExponent(coord1, coord2) ==
    LET sinLat == SinHalfExponent(Difference(coord2.lat, coord1.lat))
        sinLng == SinHalfExponent(Difference(coord2.lng, coord1.lng))
        left == Times(sinLat, sinLat)
        right == Times(Times(Times(CosExponent(coord1.lat), CosExponent(coord2.lat)),
                             sinLng), sinLng)
    IN Max(left, right)

\* earthRadius * 2 * Math.atan2(Math.sqrt(a), Math.sqrt(1 - a)): 0 for a = 0,
\* and of the order of 2 * earthRadius * sqrt(a) otherwise
distanceExponent(coord1, coord2) ==
    LET a == HaversineAExponent(coord1, coord2)
    IN IF a = Zero THEN Zero
       ELSE TwoEarthRadiiExponent - ((-a + 1) \div 2)

(***************************************************************************)
(* envelop(bbox, precision).  The method is called by the tests of         *)
(* src/unnamed/part_001:87-99 but its body is not among the sources; the   *)
(* scan below is the one spec.md 4.7 describes, with the loop as spec.md   *)
(* 4.7 and 9 report it of the reference: the result of neighbor is used as *)
(* the next cell without a test for "-1".                                  *)
(*                                                                         *)
(*   end = encode(max corner); rowStart = encode(min corner);              *)
(*   rowEnd = encode({maxLng, minLat}); current = rowStart;                *)
(*   loop: while current != rowEnd: collect current, go east;              *)
(*         if current == end: leave; collect rowEnd; rowStart and rowEnd   *)
(*         go north; current = rowStart                                    *)
(*   collect end                                                           *)
(*                                                                         *)
(* The scan in progress is the record scan: the three cells the loop       *)
(* holds, the max-corner cell, the paths collected so far and whether the  *)
(* method has returned.                                                    *)
(***************************************************************************)
EnvelopeBegin(q, bbox, precision) ==
    LET rowStart == encode(q, [lng |-> bbox.minLng, lat |-> bbox.minLat], precision)
    IN [threw |-> FALSE, done |-> FALSE, value |-> <<>>,
        current |-> rowStart,
        rowStart |-> rowStart,
        rowEnd |-> encode(q, [lng |-> bbox.maxLng, lat |-> bbox.minLat], precision),
        end |-> encode(q, [lng |-> bbox.maxLng, lat |-> bbox.maxLat], precision)]

\* one iteration of the walk east: collect the cell, move to its neighbour
EnvelopeWalkEast(q, scan) ==
    [scan EXCEPT !.value = Append(scan.value, scan.current),
                 !.current = neighbor(q, scan.current, 1, 0)]

\* the row is finished and is not the last: collect its east-edge cell and
\* move the row's two ends north
EnvelopeStepNorth(q, scan) ==
    LET rowStart == neighbor(q, scan.rowStart, 0, 1)
    IN [scan EXCEPT !.value = Append(scan.value, scan.rowEnd),
                    !.rowEnd = neighbor(q, scan.rowEnd, 0, 1),
                    !.rowStart = rowStart,
                    !.current = rowStart]

\* the max-corner cell is reached: collect it and return
EnvelopeEnd(scan) ==
    [scan EXCEPT !.value = Append(scan.value, scan.end), !.done = TRUE]

(***************************************************************************)
(* Inputs explored.                                                        *)
(***************************************************************************)
Alphabet == {"1", "2", "3", "4"}

\* symbols a caller can put in a string that are not quadrant symbols
OtherSymbols == {"-", "5"}

SeqsUpTo(S, n) == UNION {[1..m -> S] : m \in 0..n}

IsPath(p) == \A i \in 1..Len(p) : p[i] \in Alphabet

Paths == SeqsUpTo(Alphabet, MaxPrec)

MalformedPaths == {p \in SeqsUpTo(Alphabet \cup OtherSymbols, MaxBadLen) : ~IsPath(p)}

\* constructor arguments tried, in whole degrees: in range, on the limit,
\* beyond the limit
LngArgs == {Deg(-184), Deg(-180), Deg(0), Deg(180), Deg(184)}
LatArgs == {Deg(-92), Deg(-90), Deg(90), Deg(92)}

\* subdivisions of a Region axis at which coordinates are taken
GridN == Pow2(MaxPrec + 1)

\* coordinates on every split line of every level, between them, on the
\* Region edge, and outside the Region
AxisValues(lo, hi) ==
    {lo + j * ((hi - lo) \div GridN) : j \in -1..(GridN + 1)}
        \cup {lo - Deg(1), hi + Deg(1)}

Coordinates(q) ==
    {[lng |-> x, lat |-> y] : x \in AxisValues(q.minLng, q.maxLng),
                              y \in AxisValues(q.minLat, q.maxLat)}

Precisions == -1..MaxPrec

Offsets == {-1, 0, 1}

\* bounds of the proximity search explored
MaxPoints == 3
MaxK == 3

\* places searched among, in whole degrees (multiples of 15): on the whole
\* globe at precision 3 they are '131', '243' and '143'
Places ==
    {[lng |-> Deg(75), lat |-> Deg(30)], [lng |-> Deg(-15), lat |-> Deg(15)],
     [lng |-> Deg(105), lat |-> Deg(15)]}

\* places searched from, both in '133' on the whole globe at precision 3;
\* the second is as far from the place '243' as from the place '143'
Targets == {[lng |-> Deg(15), lat |-> Deg(15)], [lng |-> Deg(45), lat |-> Deg(15)]}

\* a caller's point: the coordinate with its pre-computed encoding
Annotated(q, c, precision) ==
    [lng |-> c.lng, lat |-> c.lat, encoded |-> encode(q, c, precision)]

PlaceLists == SeqsUpTo(Places, MaxPoints)

Ks == -1..MaxK

\* coordinates whose distance is taken: the poles, the equator, the two
\* names of the antimeridian, and values next to 0 that differ by less and
\* by more than what the squares in the formula can hold
TinyExponents == {-170, -100}

LngValues == {Whole(-180), Whole(0), Whole(90), Whole(180)} \cup {Tiny(n) : n \in TinyExponents}
LatValues == {Whole(-90), Whole(0), Whole(45), Whole(90)} \cup {Tiny(n) : n \in TinyExponents}

DistanceCoordinates == [lng : LngValues, lat : LatValues]

\* bounding boxes enveloped: corners on the quarters of each Region axis
\* (its edges and the split lines of the first two levels), min <= max
QuarterValues(lo, hi) == {lo + j * ((hi - lo) \div 4) : j \in 0..4}

BBoxes(q) ==
    LET xs == QuarterValues(q.minLng, q.maxLng)
        ys == QuarterValues(q.minLat, q.maxLat)
    IN {b \in [minLng : xs, minLat : ys, maxLng : xs, maxLat : ys] :
           b.minLng <= b.maxLng /\ b.minLat <= b.maxLat}

\* the scan is followed for at most this many paths beyond the number of
\* cells of the precision
MaxOverrun == 4

CellsAt(precision) == Pow2(2 * precision)

(***************************************************************************)
(* Actions: one per public operation.                                      *)
(***************************************************************************)
Init ==
    /\ qt = NoInstance
    /\ op = "none"
    /\ args = <<>>
    /\ ret = <<>>

Constructed == qt # NoInstance

Idle == op = "none"

Construct ==
    /\ Idle
    /\ ~Constructed
    /\ \E minLng \in LngArgs, maxLng \in LngArgs, minLat \in LatArgs, maxLat \in LatArgs :
         LET r == Constructor(minLng, minLat, maxLng, maxLat)
         IN /\ op' = "constructor"
            /\ args' = [minLng |-> minLng, minLat |-> minLat,
                        maxLng |-> maxLng, maxLat |-> maxLat]
            /\ ret' = r
            /\ qt' = IF r.threw THEN qt ELSE r.instance

DoEncode ==
    /\ Idle
    /\ Constructed
    /\ \E c \in Coordinates(qt), p \in Precisions :
        /\ op' = "encode"
        /\ args' = [coordinate |-> c, precision |-> p]
        /\ ret' = [threw |-> FALSE, value |-> encode(qt, c, p)]
    /\ UNCHANGED qt

DoDecode ==
    /\ Idle
    /\ Constructed
    /\ \E e \in Paths \cup MalformedPaths :
        /\ op' = "decode"
        /\ args' = [encoded |-> e]
        /\ ret' = [threw |-> FALSE, value |-> decode(qt, e)]
    /\ UNCHANGED qt

DoBoundingBox ==
    /\ Idle
    /\ Constructed
    /\ \E e \in Paths \cup MalformedPaths :
        /\ op' = "boundingBox"
        /\ args' = [encoded |-> e]
        /\ ret' = [threw |-> FALSE, value |-> boundingBox(qt, e)]
    /\ UNCHANGED qt

DoNeighbor ==
    /\ Idle
    /\ Constructed
    /\ \E e \in Paths \cup MalformedPaths, east \in Offsets, north \in Offsets :
        /\ op' = "neighbor"
        /\ args' = [encoded |-> e, east |-> east, north |-> north]
        /\ ret' = [threw |-> FALSE, value |-> neighbor(qt, e, east, north)]
    /\ UNCHANGED qt

\* the caller encodes the points at one precision and the target at that
\* precision or at the finest one, then searches
DoSortProximity ==
    /\ Idle
    /\ Constructed
    /\ \E t \in Targets, cs \in PlaceLists, k \in Ks, p \in 0..MaxPrec, tp \in 0..MaxPrec :
        /\ tp \in {p, MaxPrec}
        /\ LET target == Annotated(qt, t, tp)
               points == [i \in 1..Len(cs) |-> Annotated(qt, cs[i], p)]
           IN /\ op' = "sortPointsByProximityToTarget"
              /\ args' = [target |-> target, points |-> points, k |-> k]
              /\ ret' = sortPointsByProximityToTarget(target, points, k)
    /\ UNCHANGED qt

\* the caller sorts the same kind of list by distance alone
DoSortHaversine ==
    /\ Idle
    /\ Constructed
    /\ \E t \in Targets, cs \in PlaceLists, p \in 0..MaxPrec, tp \in 0..MaxPrec :
        /\ tp \in {p, MaxPrec}
        /\ LET target == Annotated(qt, t, tp)
               points == [i \in 1..Len(cs) |-> Annotated(qt, cs[i], p)]
           IN /\ op' = "sortPointsByHaversineFormula"
              /\ args' = [target |-> target, points |-> points]
              /\ ret' = sortPointsByHaversineFormula(target, points)
    /\ UNCHANGED qt

DoDistance ==
    /\ Idle
    /\ Constructed
    /\ \E coord1 \in DistanceCoordinates, coord2 \in DistanceCoordinates :
        /\ op' = "distance"
        /\ args' = [coord1 |-> coord1, coord2 |-> coord2]
        /\ ret' = [threw |-> FALSE, value |-> distanceExponent(coord1, coord2)]
    /\ UNCHANGED qt

\* envelop is followed statement by statement: the call begins ...
EnvelopeStart ==
    /\ Idle
    /\ Constructed
    /\ \E bbox \in BBoxes(qt), p \in 0..MaxPrec :
        /\ op' = "envelop"
        /\ args' = [bbox |-> bbox, precision |-> p]
        /\ ret' = EnvelopeBegin(qt, bbox, p)
    /\ UNCHANGED qt

Enveloping ==
    /\ op = "envelop"
    /\ ~ret.done
    /\ Len(ret.value) < CellsAt(args.precision) + MaxOverrun

\* ... the inner loop runs once (current != rowEnd) ...
EnvelopeEast ==
    /\ Enveloping
    /\ ret.current # ret.rowEnd
    /\ ret' = EnvelopeWalkEast(qt, ret)
    /\ UNCHANGED <<qt, op, args>>

\* ... or the row is finished and another follows (current != end) ...
EnvelopeNorth ==
    /\ Enveloping
    /\ ret.current = ret.rowEnd
    /\ ret.current # ret.end
    /\ ret' = EnvelopeStepNorth(qt, ret)
    /\ UNCHANGED <<qt, op, args>>

\* ... or the max-corner cell is reached and the method returns its list
EnvelopeFinish ==
    /\ Enveloping
    /\ ret.current = ret.rowEnd
    /\ ret.current = ret.end
    /\ ret' = EnvelopeEnd(ret)
    /\ UNCHANGED <<qt, op, args>>

\* the call returns (or its exception propagates) to the caller
Return ==
    /\ ~Idle
    /\ op = "envelop" => ret.done
    /\ op' = "none"
    /\ args' = <<>>
    /\ ret' = <<>>
    /\ UNCHANGED qt

NextCodec == Construct \/ DoEncode \/ DoDecode \/ DoBoundingBox \/ Return

SpecCodec == Init /\ [][NextCodec]_vars

NextTopology == Construct \/ DoNeighbor \/ Return

SpecTopology == Init /\ [][NextTopology]_vars

NextSearch == Construct \/ DoSortProximity \/ DoSortHaversine \/ Return

SpecSearch == Init /\ [][NextSearch]_vars

NextEnvelope ==
    Construct \/ EnvelopeStart \/ EnvelopeEast \/ EnvelopeNorth \/ EnvelopeFinish \/ Return

SpecEnvelope == Init /\ [][NextEnvelope]_vars

NextDistance == Construct \/ DoDistance \/ Return

SpecDistance == Init /\ [][NextDistance]_vars

(***************************************************************************)
(* Vocabulary of the properties.                                           *)
(***************************************************************************)
\* the Region invariant of the data model
RegionInvariant(r) ==
    /\ Deg(-180) <= r.minLng /\ r.minLng <= r.maxLng /\ r.maxLng <= Deg(180)
    /\ Deg(-90) <= r.minLat /\ r.minLat <= r.maxLat /\ r.maxLat <= Deg(90)

NonDegenerate(q) == q.minLng < q.maxLng /\ q.minLat < q.maxLat

\* closed containment of a coordinate in a rectangle
Contains(box, c) ==
    /\ box.minLng <= c.lng /\ c.lng <= box.maxLng
    /\ box.minLat <= c.lat /\ c.lat <= box.maxLat

\* a rectangle lies in another (closed)
BoxInside(outer, box) ==
    /\ outer.minLng <= box.minLng /\ box.maxLng <= outer.maxLng
    /\ outer.minLat <= box.minLat /\ box.maxLat <= outer.maxLat

\* a rectangle moved by east cell widths and north cell heights
Translate(box, east, north) ==
    LET w == box.maxLng - box.minLng
        h == box.maxLat - box.minLat
    IN [minLng |-> box.minLng + east * w, minLat |-> box.minLat + north * h,
        maxLng |-> box.maxLng + east * w, maxLat |-> box.maxLat + north * h]

\* the cell has the Region edge on the side the offsets point to
TouchesEdgeToward(q, box, east, north) ==
    \/ east = 1 /\ box.maxLng = q.maxLng
    \/ east = -1 /\ box.minLng = q.minLng
    \/ north = 1 /\ box.maxLat = q.maxLat
    \/ north = -1 /\ box.minLat = q.minLat

\* the cell has no side on the Region edge
Interior(q, box) ==
    /\ q.minLng < box.minLng /\ box.maxLng < q.maxLng
    /\ q.minLat < box.minLat /\ box.maxLat < q.maxLat

OnSplitLine(q, c) == c.lng = Center(q).lng \/ c.lat = Center(q).lat

(***************************************************************************)
(* Claims on the codec (SpecCodec).                                        *)
(***************************************************************************)
\* C1: round-trip containment.  For every Region, every coordinate c inside
\* it (closed bounds) and every precision p >= 0, the rectangle
\* boundingBox(encode(c, p)) contains c, also when c is on a split line or
\* on the Region edge.
C1_RoundTripContainment ==
    (op = "encode" /\ args.precision >= 0 /\ Contains(qt, args.coordinate))
        => Contains(boundingBox(qt, ret.value), args.coordinate)

\* C1 witness: a coordinate on a split line of a non-degenerate Region was
\* encoded at precision >= 2 and lies in the cell returned.
C1_Witness ==
    /\ op = "encode"
    /\ NonDegenerate(qt)
    /\ args.precision >= 2
    /\ Contains(qt, args.coordinate)
    /\ OnSplitLine(qt, args.coordinate)
    /\ Len(ret.value) = args.precision
    /\ Contains(boundingBox(qt, ret.value), args.coordinate)

\* C9: decode fails with an InvalidPath error whenever the path holds a
\* symbol outside '1'..'4'; it never returns a DecodedCell for such a path
\* (boundingBox, which decodes first, likewise).
C9_MalformedPathRejected ==
    (op \in {"decode", "boundingBox"} /\ ~IsPath(args.encoded)) => ret.threw

\* C10: construction succeeds if and only if the bounds satisfy the Region
\* invariant; a failed construction produces no instance, so every existing
\* instance satisfies the invariant.
C10_ConstructionIffInvariant ==
    /\ op = "constructor" =>
          /\ ~ret.threw <=> RegionInvariant(args)
          /\ ret.threw => (qt = NoInstance /\ ret.error = "AssertionError")
          /\ ~ret.threw => qt = args
    /\ Constructed => RegionInvariant(qt)

\* C10 witness: a construction with inverted latitudes (all four bounds in
\* range) failed and left no instance.
C10_Witness ==
    /\ op = "constructor"
    /\ args.minLat > args.maxLat
    /\ args.minLat <= Deg(90) /\ args.maxLat >= Deg(-90)
    /\ LngAssert(args.minLng, args.maxLng)
    /\ ret.threw
    /\ qt = NoInstance

\* the origin encode compares the coordinate with at subdivision step i
\* (1-based) of the run that produced encoded: the centre of the cell of the
\* first i-1 symbols
StepOrigin(q, encoded, i) == decode(q, SubSeq(encoded, 1, i - 1)).origin

\* C11 as stated: at every subdivision step, a coordinate exactly on a split
\* line of the current cell is assigned to the quadrant on the higher-lng /
\* higher-lat side of that line, whatever its position on the other axis
\* (here for coordinates inside a Region of non-zero width and height).
C11_TieTowardHigherSide ==
    (/\ op = "encode"
     /\ args.precision >= 1
     /\ NonDegenerate(qt)
     /\ Contains(qt, args.coordinate)) =>
        \A i \in 1..Len(ret.value) :
            LET origin == StepOrigin(qt, ret.value, i)
            IN /\ args.coordinate.lng = origin.lng => ret.value[i] \in {"1", "4"}
               /\ args.coordinate.lat = origin.lat => ret.value[i] \in {"1", "2"}

\* C11 amended: a coordinate on the latitude split line goes to the
\* higher-lat side ('1' or '2') whatever its longitude; a coordinate on the
\* longitude split line goes to the higher-lng side ('1') only when its
\* latitude is on or above the latitude split line, and to the lower-lng
\* side ('3') when its latitude is below it.
C11_TieByChainOrder ==
    (op = "encode" /\ args.precision >= 1) =>
        \A i \in 1..Len(ret.value) :
            LET origin == StepOrigin(qt, ret.value, i)
                c == args.coordinate
            IN /\ c.lat = origin.lat => ret.value[i] \in {"1", "2"}
               /\ (c.lng = origin.lng /\ c.lat >= origin.lat) => ret.value[i] = "1"
               /\ (c.lng = origin.lng /\ c.lat < origin.lat) => ret.value[i] = "3"

\* C11 witness: in a Region of non-zero width and height, a coordinate on
\* the longitude split line of the second step and below its latitude split
\* line was encoded, and the second symbol is '3'.
C11_Witness ==
    /\ op = "encode"
    /\ NonDegenerate(qt)
    /\ args.precision >= 2
    /\ Contains(qt, args.coordinate)
    /\ args.coordinate.lng = StepOrigin(qt, ret.value, 2).lng
    /\ args.coordinate.lat < StepOrigin(qt, ret.value, 2).lat
    /\ ret.value[2] = "3"

\* C12: monotonic shrink.  For every Path p and digit d, decode(p + d).error
\* is exactly half of decode(p).error on both axes, so decode(p).error is
\* the Region half-extent divided by 2^len(p) and is the same for every
\* Path of that length.
C12_ErrorHalvesPerDigit ==
    (op = "decode" /\ IsPath(args.encoded)) =>
        LET p == args.encoded
            error == ret.value.error
        IN /\ error.lng * Pow2(Len(p)) = HalfRange(qt).lng
           /\ error.lat * Pow2(Len(p)) = HalfRange(qt).lat
           /\ Len(p) < MaxPrec =>
                 \A d \in Alphabet :
                    LET next == decode(qt, Append(p, d)).error
                    IN next.lng * 2 = error.lng /\ next.lat * 2 = error.lat
           /\ \A other \in Paths :
                 Len(other) = Len(p) => decode(qt, other).error = error

\* C12 witness: a Path of two digits was decoded in a Region of non-zero
\* width and height, and its error is a quarter of the Region half-extent.
C12_Witness ==
    /\ op = "decode"
    /\ NonDegenerate(qt)
    /\ IsPath(args.encoded)
    /\ Len(args.encoded) = 2
    /\ ret.value.error.lng > 0 /\ ret.value.error.lat > 0
    /\ ret.value.error.lng * 4 = HalfRange(qt).lng
    /\ ret.value.error.lat * 4 = HalfRange(qt).lat
    /\ decode(qt, Append(args.encoded, "3")).error.lat * 8 = HalfRange(qt).lat

\* C13: prefix-locality.  For every valid Path p and every prefix q of p,
\* boundingBox(p) is contained in boundingBox(q); hence two Paths sharing a
\* common prefix of length m both lie inside the cell of that prefix.
C13_PrefixLocality ==
    (op = "boundingBox" /\ IsPath(args.encoded)) =>
        LET p == args.encoded
        IN /\ \A m \in 0..Len(p) :
                 BoxInside(boundingBox(qt, SubSeq(p, 1, m)), ret.value)
           /\ \A other \in Paths :
                 LET m == getPrefixMatchLength(p, other)
                     ancestor == boundingBox(qt, SubSeq(p, 1, m))
                 IN BoxInside(ancestor, ret.value)
                       /\ BoxInside(ancestor, boundingBox(qt, other))

\* C13 witness: the box of a Path of three digits was asked for in a Region
\* of non-zero width and height; it lies in the box of its first digit and
\* is smaller than it.
C13_Witness ==
    /\ op = "boundingBox"
    /\ NonDegenerate(qt)
    /\ IsPath(args.encoded)
    /\ Len(args.encoded) = 3
    /\ LET parent == boundingBox(qt, SubSeq(args.encoded, 1, 1))
       IN /\ BoxInside(parent, ret.value)
          /\ parent # ret.value
          /\ ret.value.minLng > parent.minLng
          /\ ret.value.maxLat < parent.maxLat

\* C16: encode rejects a negative precision with a descriptive error: for
\* every coordinate and every precision < 0 it raises an error instead of
\* returning a Path.
C16_NegativePrecisionRejected ==
    (op = "encode" /\ args.precision < 0) => ret.threw

\* a coordinate moved onto the Region on each axis it is beyond
Clamp(q, c) ==
    [lng |-> Max(q.minLng, Min(q.maxLng, c.lng)),
     lat |-> Max(q.minLat, Min(q.maxLat, c.lat))]

\* C22: out-of-Region aliasing.  For every precision p >= 1 and every
\* coordinate c outside a Region of non-zero width and height, encode(c, p)
\* equals encode of c clamped to the Region on each axis, so the cell lies
\* inside the Region, on the edge c is beyond, and no error is raised.
C22_OutsideAliasesToClamped ==
    (/\ op = "encode"
     /\ args.precision >= 1
     /\ NonDegenerate(qt)
     /\ ~Contains(qt, args.coordinate)) =>
        LET c == args.coordinate
            clamped == Clamp(qt, c)
            box == boundingBox(qt, ret.value)
        IN /\ ~ret.threw
           /\ Len(ret.value) = args.precision
           /\ ret.value = encode(qt, clamped, args.precision)
           /\ BoxInside(qt, box)
           /\ Contains(box, clamped)
           /\ c.lng > qt.maxLng => box.maxLng = qt.maxLng
           /\ c.lng < qt.minLng => box.minLng = qt.minLng
           /\ c.lat > qt.maxLat => box.maxLat = qt.maxLat
           /\ c.lat < qt.minLat => box.minLat = qt.minLat

\* C22 witness: a coordinate east of the Region, with a latitude inside it
\* and below the first latitude split line, was encoded at precision 3 to
\* a cell on the east edge.
C22_Witness ==
    /\ op = "encode"
    /\ NonDegenerate(qt)
    /\ args.precision = 3
    /\ args.coordinate.lng > qt.maxLng
    /\ args.coordinate.lat > qt.minLat
    /\ args.coordinate.lat < Center(qt).lat
    /\ ret.value = encode(qt, Clamp(qt, args.coordinate), 3)
    /\ ret.value[1] = "4"
    /\ boundingBox(qt, ret.value).maxLng = qt.maxLng

\* C26: prefix stability of encode.  For every Region, every coordinate c
\* and every p >= 0, encode(c, p) is the length-p prefix of encode(c, p + 1);
\* hence the paths of one coordinate at two precisions prefix-match over the
\* whole of the shorter one.
C26_PrefixStable ==
    (op = "encode" /\ args.precision >= 0) =>
        LET c == args.coordinate
            p == args.precision
        IN /\ p < MaxPrec => SubSeq(encode(qt, c, p + 1), 1, p) = ret.value
           /\ \A other \in 0..MaxPrec :
                 getPrefixMatchLength(ret.value, encode(qt, c, other)) = Min(p, other)

\* C26 witness: a coordinate on a split line inside a Region of non-zero
\* width and height was encoded at precision 2, and the result is the
\* first two symbols of its encoding at precision 3.
C26_Witness ==
    /\ op = "encode"
    /\ NonDegenerate(qt)
    /\ Contains(qt, args.coordinate)
    /\ OnSplitLine(qt, args.coordinate)
    /\ args.precision = 2
    /\ Len(ret.value) = 2
    /\ ret.value[1] # ret.value[2]
    /\ SubSeq(encode(qt, args.coordinate, 3), 1, 2) = ret.value

\* two rectangles share no interior point
InteriorsDisjoint(a, b) ==
    \/ a.maxLng <= b.minLng \/ b.maxLng <= a.minLng
    \/ a.maxLat <= b.minLat \/ b.maxLat <= a.minLat

\* C27: bijective tiling.  In a Region of non-zero width and height and for
\* every precision p, the 4^p Paths of length p denote pairwise distinct
\* cells with pairwise disjoint interiors whose union is the Region (each
\* cell lies in the Region and is 1/2^p of its width and of its height, so
\* 4^p disjoint ones fill it), and encode(decode(q).origin, p) = q.
C27_BijectiveTiling ==
    (op = "decode" /\ IsPath(args.encoded) /\ NonDegenerate(qt)) =>
        LET q == args.encoded
            p == Len(q)
            box == boundingBox(qt, q)
        IN /\ encode(qt, ret.value.origin, p) = q
           /\ BoxInside(qt, box)
           /\ (box.maxLng - box.minLng) * Pow2(p) = qt.maxLng - qt.minLng
           /\ (box.maxLat - box.minLat) * Pow2(p) = qt.maxLat - qt.minLat
           /\ \A other \in Paths :
                 (Len(other) = p /\ other # q) =>
                    /\ boundingBox(qt, other) # box
                    /\ InteriorsDisjoint(box, boundingBox(qt, other))
           /\ Cardinality({other \in Paths : Len(other) = p}) = Pow2(2 * p)

\* C27 witness: on the whole globe the Path '341' was decoded; encoding its
\* centre at precision 3 gives '341' back, and its cell shares no interior
\* point with that of '342'.
C27_Witness ==
    /\ op = "decode"
    /\ qt = [minLng |-> Deg(-180), minLat |-> Deg(-90),
             maxLng |-> Deg(180), maxLat |-> Deg(90)]
    /\ args.encoded = <<"3", "4", "1">>
    /\ encode(qt, ret.value.origin, 3) = <<"3", "4", "1">>
    /\ InteriorsDisjoint(boundingBox(qt, <<"3", "4", "1">>),
                         boundingBox(qt, <<"3", "4", "2">>))
    /\ boundingBox(qt, <<"3", "4", "1">>).minLng
          = boundingBox(qt, <<"3", "4", "2">>).maxLng

C6_NeighborInverse ==
    (/\ op = "neighbor"
     /\ IsPath(args.encoded)
     /\ Interior(qt, boundingBox(qt, args.encoded)))
        => /\ ret.value # NotFound
           /\ neighbor(qt, ret.value, -args.east, -args.north) = args.encoded

\* C6 witness: an interior cell was moved north-east to another cell, and
\* moving that one south-west gives the first cell back.
C6_Witness ==
    /\ op = "neighbor"
    /\ IsPath(args.encoded)
    /\ Interior(qt, boundingBox(qt, args.encoded))
    /\ args.east = 1 /\ args.north = 1
    /\ ret.value # args.encoded
    /\ neighbor(qt, ret.value, -1, -1) = args.encoded

\* C7: adjacent-cell correctness.  Whenever neighbor(p, e, n) is not "-1",
\* its bounding box is the bounding box of p moved by (e cell widths,
\* n cell heights), for every Path p and every (e, n).
C7_NeighborIsAdjacentCell ==
    (op = "neighbor" /\ IsPath(args.encoded) /\ ret.value # NotFound)
        => boundingBox(qt, ret.value)
              = Translate(boundingBox(qt, args.encoded), args.east, args.north)

\* C7 witness: on the whole globe, the north-east neighbour of '23' is '21'.
C7_Witness ==
    /\ op = "neighbor"
    /\ qt = [minLng |-> Deg(-180), minLat |-> Deg(-90),
             maxLng |-> Deg(180), maxLat |-> Deg(90)]
    /\ args.encoded = <<"2", "3">>
    /\ args.east = 1 /\ args.north = 1
    /\ ret.value = <<"2", "1">>

\* C8: neighbor(path, 0, 0) returns path unchanged, for every Path and every
\* Region the constructor accepts (also one of zero width or zero height).
C8_ZeroOffsetIsIdentity ==
    (op = "neighbor" /\ IsPath(args.encoded) /\ args.east = 0 /\ args.north = 0)
        => ret.value = args.encoded

(***************************************************************************)
(* Claims on the proximity search (SpecSearch).                            *)
(***************************************************************************)
Searched == op = "sortPointsByProximityToTarget"

\* a sequence of measured points is in non-decreasing order of distance
SortedByDistance(s) ==
    \A i \in 1..(Len(s) - 1) : s[i].distance <= s[i + 1].distance

\* the point without the annotations of the search
Bare(p) == [lng |-> p.lng, lat |-> p.lat, encoded |-> p.encoded]

\* the prefix match of each of the points with the target
PrefixMatches(target, points) ==
    [i \in 1..Len(points) |->
        getPrefixMatchLength(target.encoded, points[i].encoded)]

\* for each level l, the number of points whose prefix match is >= l
CountsAtLeast(pm, maxLevel) ==
    [l \in 0..(maxLevel + 1) |-> Cardinality({i \in DOMAIN pm : pm[i] >= l})]

MaxOf(S) == CHOOSE x \in S : \A y \in S : y <= x

\* the lowest level the scan takes: one below the highest level L at which
\* at least k points match the target that far; 0 when there is none
LowestTaken(cnt, k, maxLevel) ==
    LET rich == {l \in 0..maxLevel : cnt[l] >= k}
    IN IF rich = {} THEN 0 ELSE Max(MaxOf(rich) - 1, 0)

\* C2: the search returns at most k elements (none for a k below 1), in
\* non-decreasing order of Haversine distance to the target, for every
\* target, points list and k.
C2_AtMostKSorted ==
    Searched =>
        /\ Len(ret.value) <= Max(args.k, 0)
        /\ SortedByDistance(ret.value)
        /\ \A i \in 1..Len(ret.value) :
              ret.value[i].distance = distance(args.target, ret.value[i])

\* C3: buckets are visited in strictly descending order from the length of
\* the target path; the scan takes exactly one more bucket after the first
\* at which the count reaches k, so the candidates are exactly the points
\* with prefixMatch >= L-1, L the highest level with at least k points of
\* prefixMatch >= L (all points when there is no such level or L = 0).
C3_BucketScan ==
    (Searched /\ Len(args.points) > 0) =>
        LET maxLevel == Len(args.target.encoded)
            pm == PrefixMatches(args.target, args.points)
            cnt == CountsAtLeast(pm, maxLevel)
            low == LowestTaken(cnt, args.k, maxLevel)
        IN /\ Len(ret.visited) >= 1
           /\ ret.visited[1] = maxLevel
           /\ \A j \in 1..(Len(ret.visited) - 1) :
                 ret.visited[j + 1] = ret.visited[j] - 1
           /\ ret.visited[Len(ret.visited)] = low
           /\ Len(ret.candidates) = cnt[low]
           /\ \A j \in 1..Len(ret.candidates) :
                 /\ ret.candidates[j].prefixMatch >= low
                 /\ \E i \in 1..Len(args.points) :
                       /\ Bare(ret.candidates[j]) = args.points[i]
                       /\ ret.candidates[j].prefixMatch = pm[i]
           /\ \A l \in 0..maxLevel :
                 Cardinality({j \in 1..Len(ret.candidates) :
                                 ret.candidates[j].prefixMatch = l})
                    = IF l >= low THEN cnt[l] - cnt[l + 1] ELSE 0

\* C3 witness: with k = 1 the bucket of level 3 is empty, level 2 holds the
\* first point, level 1 is taken as the one further bucket and the scan
\* stops there, leaving out a point of level 0.
C3_Witness ==
    /\ Searched
    /\ args.k = 1
    /\ ret.visited = <<3, 2, 1>>
    /\ Len(args.points) = 3
    /\ LET pm == PrefixMatches(args.target, args.points)
       IN {pm[i] : i \in 1..3} = {2, 1, 0}
    /\ Len(ret.candidates) = 2

\* C4: the search returns the k closest points.  When every path was
\* produced by encode at one precision (here in a Region of non-zero width
\* and height) and there are at least k >= 1 points, no point left out of
\* the result is strictly closer to the target than some returned point.
C4_ReturnsKClosest ==
    (/\ Searched
     /\ NonDegenerate(qt)
     /\ args.k >= 1
     /\ Len(args.points) >= args.k
     /\ \A i \in 1..Len(args.points) :
           Len(args.points[i].encoded) = Len(args.target.encoded))
        => \A i \in 1..Len(args.points), j \in 1..Len(ret.value) :
              distance(args.target, args.points[i]) < ret.value[j].distance
                 => \E m \in 1..Len(ret.value) : Bare(ret.value[m]) = args.points[i]

\* the number of elements of a sequence equal to x
Occurrences(s, x) == Cardinality({i \in 1..Len(s) : s[i] = x})

\* the returned points without their annotations
BareValue == [j \in 1..Len(ret.value) |-> Bare(ret.value[j])]

\* C14: for k >= 1 the result has exactly min(k, |points|) elements, each
\* corresponding to a distinct element of points (no point is returned more
\* often than it occurs in points, none is invented); it is empty when
\* points is empty.
C14_ResultSize ==
    (Searched /\ args.k >= 1) =>
        LET bare == BareValue
        IN /\ Len(ret.value) = Min(args.k, Len(args.points))
           /\ \A j \in 1..Len(ret.value) :
                 /\ Occurrences(args.points, bare[j]) >= 1
                 /\ Occurrences(bare, bare[j]) <= Occurrences(args.points, bare[j])
           /\ args.points = <<>> => ret.value = <<>>

\* C14 witness: three points, two of them the same place, were searched
\* with k = 2 at the finest precision; two elements came back.
C14_Witness ==
    /\ Searched
    /\ NonDegenerate(qt)
    /\ args.k = 2
    /\ Len(args.points) = 3
    /\ args.points[1] = args.points[3]
    /\ args.points[1] # args.points[2]
    /\ Len(args.target.encoded) = MaxPrec
    /\ Len(ret.value) = 2

\* C15: the search rejects k <= 0 with a descriptive error: for k = 0 or a
\* negative k and a non-empty points list it raises an error instead of
\* returning a list.
C15_NonPositiveKRejected ==
    (Searched /\ args.k <= 0 /\ Len(args.points) > 0) => ret.threw

\* what the full scan returns for the arguments of the search
FullScan == sortPointsByHaversineFormula(args.target, args.points).value

\* no two points that match the target over different lengths are at the
\* same distance from it
NoTieAcrossBuckets(target, points) ==
    LET pm == PrefixMatches(target, points)
        d == [i \in 1..Len(points) |-> distance(target, points[i])]
    IN \A i, j \in 1..Len(points) : pm[i] # pm[j] => d[i] # d[j]

\* C17 as stated: when k >= |points| the search returns all the points in
\* exactly the order the full scan sortPointsByHaversineFormula produces,
\* whatever the prefix-match distribution of the points (here for points
\* inside a Region of non-zero width and height).
C17_SameOrderAsFullScan ==
    (/\ Searched
     /\ args.k >= Len(args.points)
     /\ NonDegenerate(qt)
     /\ \A i \in 1..Len(args.points) : Contains(qt, args.points[i]))
        => BareValue = FullScan

\* C17 amended: when k >= |points| the search returns all the points, each
\* as often as it occurs, in ascending distance like the full scan; the two
\* orders are the same whenever no two points of different prefix match are
\* equidistant from the target (the search orders such a tie by descending
\* prefix match, the full scan by position in points).
C17_SameOrderUnlessTie ==
    (Searched /\ args.k >= Len(args.points)) =>
        LET full == FullScan
            bare == BareValue
            d == [i \in 1..Len(full) |-> distance(args.target, full[i])]
        IN /\ Len(ret.value) = Len(args.points)
           /\ \A i \in 1..Len(args.points) :
                 Occurrences(bare, args.points[i])
                    = Occurrences(args.points, args.points[i])
           /\ SortedByDistance(ret.value)
           /\ \A i \in 1..(Len(full) - 1) : d[i] <= d[i + 1]
           /\ NoTieAcrossBuckets(args.target, args.points) => bare = full

\* C17 witness: three points of three different prefix matches, no two at
\* the same distance, were searched with k = 3; the result is the full
\* scan's order, which is not the order of points.
C17_Witness ==
    /\ Searched
    /\ NonDegenerate(qt)
    /\ args.k = 3
    /\ Len(args.points) = 3
    /\ LET pm == PrefixMatches(args.target, args.points)
       IN {pm[i] : i \in 1..3} = {2, 1, 0}
    /\ NoTieAcrossBuckets(args.target, args.points)
    /\ BareValue = FullScan
    /\ BareValue # args.points
    /\ ret.value[1].prefixMatch < ret.value[2].prefixMatch

\* the fields of a caller's point, and those of a returned element
PointFields == {"lng", "lat", "encoded"}
ResultFields == PointFields \cup {"prefixMatch", "distance"}

\* C18: purity of the search.  A call leaves the Region bounds, the target
\* object, the points array (length and element order) and every element
\* of points (no field added or changed) as they were before the call; the
\* prefixMatch and distance annotations are on the returned copies only.
C18_SearchIsPure ==
    [][(op' = "sortPointsByProximityToTarget") =>
          /\ qt' = qt
          /\ ret'.after.target = args'.target
          /\ ret'.after.points = args'.points
          /\ \A i \in 1..Len(ret'.after.points) :
                DOMAIN ret'.after.points[i] = PointFields
          /\ \A j \in 1..Len(ret'.value) :
                DOMAIN ret'.value[j] = ResultFields]_vars

\* C18 witness: a search over three points returned two annotated elements
\* and the caller's three points are as they were, without annotations.
C18_Witness ==
    /\ Searched
    /\ NonDegenerate(qt)
    /\ Len(args.points) = 3
    /\ Len(ret.value) = 2
    /\ DOMAIN ret.value[1] = ResultFields
    /\ ret.value[1].prefixMatch > 0
    /\ ret.value[2].distance > 0
    /\ ret.after.points = args.points
    /\ \A i \in 1..3 : DOMAIN ret.after.points[i] = PointFields

\* C19: the returned points are sorted by quadtree prefix match and then
\* distance: a point with a longer common prefix with the target precedes
\* every point with a shorter one, and points of equal prefix match are in
\* ascending distance order (here for k >= 1 and points inside a Region of
\* non-zero width and height).
C19_SortedByPrefixThenDistance ==
    (/\ Searched
     /\ args.k >= 1
     /\ NonDegenerate(qt)
     /\ \A i \in 1..Len(args.points) : Contains(qt, args.points[i]))
        => \A i, j \in 1..Len(ret.value) :
              i < j =>
                 \/ ret.value[i].prefixMatch > ret.value[j].prefixMatch
                 \/ /\ ret.value[i].prefixMatch = ret.value[j].prefixMatch
                    /\ ret.value[i].distance <= ret.value[j].distance

\* the distance of each of the points to the target
Distances(target, points) ==
    [i \in 1..Len(points) |-> distance(target, points[i])]

\* the points that are among the k nearest of all: fewer than k are nearer
TrueNearest(d, k) ==
    {i \in DOMAIN d : Cardinality({j \in DOMAIN d : d[j] < d[i]}) < k}

\* C24: bounded omission.  With pairwise distinct distances to the target
\* and k >= 1, let L be the highest level at which at least k points have
\* prefixMatch >= L: every point that is among the true k nearest and has
\* prefixMatch >= L-1 is in the result, so a true nearest neighbour can be
\* missing only if its prefix match is at most L-2 (none is missing when
\* there is no such level).
C24_BoundedOmission ==
    (Searched /\ args.k >= 1 /\ Len(args.points) > 0) =>
        LET d == Distances(args.target, args.points)
            maxLevel == Len(args.target.encoded)
            pm == PrefixMatches(args.target, args.points)
            cnt == CountsAtLeast(pm, maxLevel)
            rich == {l \in 0..maxLevel : cnt[l] >= args.k}
            floor == IF rich = {} THEN 0 ELSE MaxOf(rich) - 1
            bare == BareValue
        IN (\A i, j \in DOMAIN d : i # j => d[i] # d[j]) =>
              \A i \in TrueNearest(d, args.k) :
                 pm[i] >= floor => \E m \in 1..Len(bare) : bare[m] = args.points[i]

\* C24 witness: three points at three distances were searched with k = 1;
\* L is 2, the point returned is the nearest of those with prefixMatch >= 1
\* and the nearest point of all, whose prefix match is 0, is not returned.
C24_Witness ==
    /\ Searched
    /\ NonDegenerate(qt)
    /\ args.k = 1
    /\ Len(args.points) = 3
    /\ Len(ret.value) = 1
    /\ LET d == Distances(args.target, args.points)
           pm == PrefixMatches(args.target, args.points)
       IN /\ \A i, j \in 1..3 : i # j => d[i] # d[j]
          /\ {pm[i] : i \in 1..3} = {2, 1, 0}
          /\ ret.value[1].prefixMatch = 2
          /\ \E i \in 1..3 :
                /\ pm[i] = 0
                /\ TrueNearest(d, 1) = {i}
                /\ d[i] < ret.value[1].distance

C20_NotFoundEndsScan ==
    op = "envelop" =>
        /\ ~ret.done => NotFound \notin {ret.current, ret.rowStart, ret.rowEnd}
        /\ Len(ret.value) <= CellsAt(args.precision)

\* C21: for each of the four precision-1 cells, envelop(boundingBox(cell), 1)
\* returns a collection of exactly one Path, the cell's own (here in a
\* Region of non-zero width and height, for every call that returns).
C21_EnvelopeOfOneCell ==
    (/\ op = "envelop"
     /\ ret.done
     /\ args.precision = 1
     /\ NonDegenerate(qt))
        => \A cell \in Alphabet :
              args.bbox = boundingBox(qt, <<cell>>) => ret.value = <<<<cell>>>>

(***************************************************************************)
(* Claims on distance in doubles (SpecDistance)                            *)
(***************************************************************************)
\* a difference of coordinates whose squared half-angle sine underflows
Negligible(delta) ==
    \/ delta.kind = "zero"
    \/ delta.kind = "tiny" /\ delta.n <= -170

\* two different coordinates, a whole number of degrees apart, that name one
\* point of the sphere: a pole under two longitudes, or one latitude at
\* lng = 180 and at lng = -180
SamePlaceOnSphere(coord1, coord2) ==
    /\ coord1.lat = coord2.lat
    /\ Difference(coord2.lng, coord1.lng).kind = "deg"
    /\ \/ coord1.lat \in {Whole(90), Whole(-90)}
       \/ {coord1.lng, coord2.lng} = {Whole(180), Whole(-180)}

\* C23 as stated: distance(a, b) is zero if and only if a and b have the
\* same lng and the same lat.
C23_ZeroIffEqual ==
    op = "distance" =>
        (ret.value = Zero <=> args.coord1 = args.coord2)

\* C23 as amended: distance(a, b) is zero for a = b, and is zero exactly
\* when neither lng nor lat differs by more than what underflows in the
\* formula (a whole number of degrees or 1e-100 degree is more, 1e-170
\* degree is not); two coordinates a whole number of degrees apart that name
\* one point of the sphere are at a distance that is not zero and is below
\* 1e-7 metre.
C23_ZeroIffWithinUnderflow ==
    op = "distance" =>
        LET coord1 == args.coord1
            coord2 == args.coord2
        IN /\ coord1 = coord2 => ret.value = Zero
           /\ ret.value = Zero <=>
                  /\ Negligible(Difference(coord2.lat, coord1.lat))
                  /\ Negligible(Difference(coord2.lng, coord1.lng))
           /\ SamePlaceOnSphere(coord1, coord2) =>
                  ret.value # Zero /\ ret.value <= -8

\* the distance of two longitudes of the north pole was taken and is not zero
C23_Witness ==
    /\ op = "distance"
    /\ args.coord1 = [lng |-> Whole(0), lat |-> Whole(90)]
    /\ args.coord2 = [lng |-> Whole(90), lat |-> Whole(90)]
    /\ ret.value # Zero

====
